---- MODULE Spec2Model ----
(* A model of src/proof/supernova.rs: the NIVC step-sequence builder         *)
(* (NIVCSteps::from_frames), the recursive proving loop                      *)
(* (Proof::prove_recursively), Proof::verify and the SuperNovaProver::prove  *)
(* facade.  Frames are referred to by their position in the trace, so that a *)
(* cloned frame is distinguishable from every other frame of the trace.      *)
EXTENDS Integers, Sequences, FiniteSets, TLC

VARIABLES lang, config, call,
          frames, reduction_count, pc, fault, z0, zi, steps, last_meta,
          consecutive_frames, fi, batches, bound, li, running_claims,
          recursive_snark_option, recursive_snark, k, last_running_claim,
          trail, accepted, rejected, result, vcall

vars == <<lang, config, call,
          frames, reduction_count, pc, fault, z0, zi, steps, last_meta,
          consecutive_frames, fi, batches, bound, li, running_claims,
          recursive_snark_option, recursive_snark, k, last_running_claim,
          trail, accepted, rejected, result, vcall>>

-----------------------------------------------------------------------------
(* Bounds of the model *)

MaxFrames == 4
MaxCount == 3

-----------------------------------------------------------------------------
(* Basic values *)

None == <<>>
Some(x) == <<x>>

Min(a, b) == IF a <= b THEN a ELSE b

\* Meta::Lurk and Meta::Coprocessor(z_ptr)
MetaLurk == [tag |-> "Lurk", z_ptr |-> "-"]
MetaCoprocessor(z) == [tag |-> "Coprocessor", z_ptr |-> z]

\* The lane registry (Lang): the coprocessors' fingerprints, in index order.
Coprocessors == lang

coprocessor_count == Len(Coprocessors)

\* Lang::get_index: the zero-based index of a fingerprint, None if unknown.
get_index(z) ==
    IF \E j \in 1..Len(Coprocessors) : Coprocessors[j] = z
    THEN Some((CHOOSE j \in 1..Len(Coprocessors) : Coprocessors[j] = z) - 1)
    ELSE None

\* Lang::get_coprocessor_z_ptr: the fingerprint of a lane index, None if out of range.
get_coprocessor_z_ptr(j) ==
    IF j >= 0 /\ j < Len(Coprocessors) THEN Some(Coprocessors[j + 1]) ELSE None

Metas == {MetaLurk} \cup {MetaCoprocessor(Coprocessors[j]) : j \in 1..Len(Coprocessors)}

\* IO::to_vector: the field-vector form of an evaluation state.
to_vector(io) == <<io, 0>>

\* largest usize (stand-in for 2^64 - 1: larger than any steps.len())
USIZE_MAX == 2147483647

\* usize subtraction in a build without overflow checks
wrapping_sub(a, b) == IF a >= b THEN a - b ELSE USIZE_MAX - (b - a) + 1

-----------------------------------------------------------------------------
(* FoldingConfig *)

new_nivc(rc) == [mode |-> "NIVC", reduction_count |-> rc]
new_ivc(rc) == [mode |-> "IVC", reduction_count |-> rc]

\* a variant of config_circuit_index that forgets the primary lane's slot
config_circuit_index_noshift(cfg, meta) ==
    IF cfg.mode = "IVC" THEN Some(0)
    ELSE IF meta = MetaLurk THEN Some(0)
    ELSE get_index(meta.z_ptr)

\* FoldingConfig::circuit_index; None stands for the failed unwrap.
config_circuit_index(cfg, meta) ==
    IF cfg.mode = "IVC" THEN Some(0)
    ELSE IF meta = MetaLurk THEN Some(0)
    ELSE IF get_index(meta.z_ptr) = None THEN None
    ELSE Some(get_index(meta.z_ptr)[1] + 1)

\* a variant of config_num_circuits that does not count the primary lane
config_num_circuits_nolurk(cfg) ==
    IF cfg.mode = "IVC" THEN 1 ELSE coprocessor_count

config_num_circuits(cfg) ==
    IF cfg.mode = "IVC" THEN 1 ELSE 1 + coprocessor_count

-----------------------------------------------------------------------------
(* MultiFrame *)

RECURSIVE chunks(_, _)
chunks(s, c) ==
    IF s = <<>> THEN <<>>
    ELSE <<SubSeq(s, 1, Min(c, Len(s)))>> \o chunks(SubSeq(s, Min(c, Len(s)) + 1, Len(s)), c)

\* MultiFrame::from_frames: one circuit instance per chunk of at most `count` frames.
MultiFrame_from_frames(count, cf, cfg) ==
    LET cs == chunks(cf, count) IN
    [j \in 1..Len(cs) |->
        [frames |-> cs[j],
         count |-> count,
         meta |-> frames[cs[j][1]].meta,
         input |-> Some(frames[cs[j][1]].input),
         output |-> Some(frames[cs[j][Len(cs[j])]].output),
         folding_config |-> cfg]]

\* MultiFrame::blank
MultiFrame_blank(cfg, meta) ==
    [frames |-> <<>>, count |-> cfg.reduction_count, meta |-> meta,
     input |-> None, output |-> None, folding_config |-> cfg]

\* MultiFrame::circuit_index
multiframe_circuit_index(mf) == config_circuit_index(mf.folding_config, mf.meta)

-----------------------------------------------------------------------------
(* NIVCStep *)

NIVCStep_new(mf) == [multiframe |-> mf, next |-> None]

NIVCStep_blank(cfg, meta) == NIVCStep_new(MultiFrame_blank(cfg, meta))

circuit_index(step) == multiframe_circuit_index(step.multiframe)

\* the next program counter that NIVCStep::synthesize outputs
synthesize_next_pc(step) ==
    IF step.next = None THEN 0 ELSE multiframe_circuit_index(step.next[1])[1]

\* NIVCStep::num_circuits; None stands for the failed assertion.
num_circuits(step) ==
    IF step.multiframe.meta = MetaLurk THEN Some(coprocessor_count + 1) ELSE None

\* a variant of primary_circuit that looks up lane `index` instead of `index - 1`
primary_circuit_off(step, index) ==
    IF index = 0 THEN Some(step)
    ELSE IF get_coprocessor_z_ptr(index) # None
         THEN Some(NIVCStep_blank(step.multiframe.folding_config,
                                  MetaCoprocessor(get_coprocessor_z_ptr(index)[1])))
         ELSE None

\* NIVCStep::primary_circuit; None stands for the panic.
primary_circuit(step, index) ==
    IF index = 0 THEN Some(step)
    ELSE IF get_coprocessor_z_ptr(index - 1) # None
         THEN Some(NIVCStep_blank(step.multiframe.folding_config,
                                  MetaCoprocessor(get_coprocessor_z_ptr(index - 1)[1])))
         ELSE None

\* setup_running_claims: one Running Claim per circuit index, each fixed by
\* the shape of primary_circuit(index) of the blank step.
setup_running_claims(blank_step) ==
    [j \in 0..(num_circuits(blank_step)[1] - 1) |->
        [index |-> j, circuit |-> primary_circuit(blank_step, j)[1].multiframe.meta]]

z0_secondary == <<0>>

-----------------------------------------------------------------------------
(* Initial states: a trace of at most MaxFrames frames whose states chain,  *)
(* and a positive reduction count.  Two evaluation states are told apart;   *)
(* a frame may leave the state as it is.                                     *)

States == {0, 1}

Traces ==
    UNION {
      { [j \in 1..n |-> [meta |-> m[j], input |-> s[j], output |-> s[j + 1]]] :
          m \in [1..n -> Metas], s \in {t \in [1..(n + 1) -> States] : t[1] = 0} }
      : n \in 0..MaxFrames }

\* the registry of a proving run
DefaultLang == <<"A", "B">>

Init ==
    /\ lang = DefaultLang
    /\ frames \in Traces
    /\ reduction_count \in 1..MaxCount
    /\ config = new_nivc(reduction_count)
    /\ call = None
    /\ pc = "prove"
    /\ fault = "none"
    /\ z0 = None
    /\ zi = None
    /\ steps = <<>>
    /\ last_meta = MetaLurk
    /\ consecutive_frames = <<>>
    /\ fi = 1
    /\ batches = <<>>
    /\ bound = 0
    /\ li = 0
    /\ running_claims = <<>>
    /\ recursive_snark_option = None
    /\ recursive_snark = None
    /\ k = 0
    /\ last_running_claim = None
    /\ trail = <<>>
    /\ accepted = {}
    /\ rejected = {}
    /\ result = None
    /\ vcall = None

-----------------------------------------------------------------------------
(* A panic: the run stops with a low-level fault and produces nothing. *)

Panic(f) ==
    /\ pc' = "panic"
    /\ fault' = f

-----------------------------------------------------------------------------
(* SuperNovaProver::prove, up to the call of from_frames *)

\* frames[0].input.to_vector(store)?, frames.last().unwrap().output.to_vector(store)?
ProveEncode ==
    /\ pc = "prove"
    /\ IF frames = <<>>
       THEN /\ Panic("index out of bounds: frames[0]")
            /\ UNCHANGED <<z0, zi>>
       ELSE \E ok \in BOOLEAN :
              IF ok
              THEN /\ z0' = Some(to_vector(frames[1].input))
                   /\ zi' = Some(to_vector(frames[Len(frames)].output))
                   /\ pc' = "from_frames"
                   /\ fault' = fault
              ELSE /\ pc' = "error"
                   /\ fault' = "to_vector"
                   /\ UNCHANGED <<z0, zi>>
    /\ UNCHANGED <<lang, config, call>>
    /\ UNCHANGED <<frames, reduction_count, steps, last_meta, consecutive_frames,
                   fi, batches, bound, li, running_claims, recursive_snark_option,
                   recursive_snark, k, last_running_claim, trail, accepted,
                   rejected, result, vcall>>

-----------------------------------------------------------------------------
(* NIVCSteps::from_frames *)

\* a variant of closing_batch that never retains the triggering frame
closing_batch_nodup(cf, lm, f) == cf

\* the batch that a lane change closes
closing_batch(cf, lm, f) == IF lm = MetaLurk THEN Append(cf, f) ELSE cf

\* the cap a batch closed by a lane change is compiled with
closing_cap(lm, count) == IF lm = MetaLurk THEN count ELSE 1

\* a variant of pending_cap that compiles the pending batch frame by frame
pending_cap_one(lm, count) == 1

\* the cap the batch pending after the scan is compiled with
pending_cap(lm, count) == count

\* steps.extend(MultiFrame::from_frames(cap, batch, ..).map(NIVCStep::new))
extend_steps(st, cap, batch, cfg) ==
    LET mfs == MultiFrame_from_frames(cap, batch, cfg) IN
    st \o [j \in 1..Len(mfs) |-> NIVCStep_new(mfs[j])]

\* record of a batch handed to the circuit generator
batch_record(cap, batch, lm, st) ==
    [frames |-> batch, cap |-> cap, meta |-> lm, first_step |-> Len(st) + 1,
     n_steps |-> Len(chunks(batch, cap))]

FromFramesBegin ==
    /\ pc = "from_frames"
    /\ steps' = <<>>
    /\ last_meta' = frames[1].meta
    /\ consecutive_frames' = <<>>
    /\ fi' = 1
    /\ pc' = "scan"
    /\ UNCHANGED <<lang, config, call>>
    /\ UNCHANGED <<frames, reduction_count, fault, z0, zi, batches, bound, li,
                   running_claims, recursive_snark_option, recursive_snark, k,
                   last_running_claim, trail, accepted, rejected, result, vcall>>

\* one iteration of `for frame in frames`
ScanFrame ==
    /\ pc = "scan"
    /\ fi <= Len(frames)
    /\ IF frames[fi].meta = last_meta
       THEN /\ consecutive_frames' = Append(consecutive_frames, fi)
            /\ UNCHANGED <<steps, batches, last_meta>>
       ELSE LET batch == closing_batch(consecutive_frames, last_meta, fi)
                cap == closing_cap(last_meta, reduction_count)
            IN /\ steps' = extend_steps(steps, cap, batch, new_nivc(reduction_count))
               /\ batches' = Append(batches, batch_record(cap, batch, last_meta, steps))
               /\ consecutive_frames' = <<fi>>
               /\ last_meta' = frames[fi].meta
    /\ fi' = fi + 1
    /\ UNCHANGED <<lang, config, call>>
    /\ UNCHANGED <<frames, reduction_count, pc, fault, z0, zi, bound, li,
                   running_claims, recursive_snark_option, recursive_snark, k,
                   last_running_claim, trail, accepted, rejected, result, vcall>>

\* after the scan: compile the pending batch
ScanEnd ==
    /\ pc = "scan"
    /\ fi > Len(frames)
    /\ IF consecutive_frames # <<>>
       THEN LET cap == pending_cap(last_meta, reduction_count) IN
            /\ steps' = extend_steps(steps, cap, consecutive_frames,
                                     new_nivc(reduction_count))
            /\ batches' = Append(batches,
                                 batch_record(cap, consecutive_frames, last_meta, steps))
       ELSE UNCHANGED <<steps, batches>>
    /\ pc' = "link"
    /\ UNCHANGED <<lang, config, call>>
    /\ UNCHANGED <<frames, reduction_count, fault, z0, zi, last_meta,
                   consecutive_frames, fi, bound, li, running_claims,
                   recursive_snark_option, recursive_snark, k, last_running_claim,
                   trail, accepted, rejected, result, vcall>>

\* a variant of link_bounds that links every step but the last
link_bounds_full(len) == {Some(len - 1)}

\* the bounds `penultimate - 1` can evaluate to: usize subtraction either
\* panics on underflow (overflow checks on) or wraps (overflow checks off).
link_bounds(len) ==
    LET penultimate == len - 1 IN
    IF penultimate >= 1 THEN {Some(penultimate - 1)}
    ELSE {None, Some(wrapping_sub(penultimate, 1))}

\* `if !steps.is_empty() { let penultimate = ..; for i in 0..(penultimate - 1)`
LinkBegin ==
    /\ pc = "link"
    /\ IF steps = <<>>
       THEN /\ pc' = "from_frames_done"
            /\ UNCHANGED <<bound, li, fault>>
       ELSE \E b \in link_bounds(Len(steps)) :
              IF b = None
              THEN /\ Panic("attempt to subtract with overflow")
                   /\ UNCHANGED <<bound, li>>
              ELSE /\ bound' = b[1]
                   /\ li' = 0
                   /\ pc' = "linkloop"
                   /\ fault' = fault
    /\ UNCHANGED <<lang, config, call>>
    /\ UNCHANGED <<frames, reduction_count, z0, zi, steps, last_meta,
                   consecutive_frames, fi, batches, running_claims,
                   recursive_snark_option, recursive_snark, k, last_running_claim,
                   trail, accepted, rejected, result, vcall>>

\* steps[i].next = Some(steps[i + 1].multiframe.clone()), indices zero-based
LinkStep ==
    /\ pc = "linkloop"
    /\ li < bound
    /\ IF li + 1 >= Len(steps)
       THEN /\ Panic("index out of bounds: steps[i + 1]")
            /\ UNCHANGED <<steps, li>>
       ELSE /\ steps' = [steps EXCEPT ![li + 1].next = Some(steps[li + 2].multiframe)]
            /\ li' = li + 1
            /\ UNCHANGED <<pc, fault>>
    /\ UNCHANGED <<lang, config, call>>
    /\ UNCHANGED <<frames, reduction_count, z0, zi, last_meta, consecutive_frames,
                   fi, batches, bound, running_claims, recursive_snark_option,
                   recursive_snark, k, last_running_claim, trail, accepted,
                   rejected, result, vcall>>

LinkEnd ==
    /\ pc = "linkloop"
    /\ li >= bound
    /\ pc' = "from_frames_done"
    /\ UNCHANGED <<lang, config, call>>
    /\ UNCHANGED <<frames, reduction_count, fault, z0, zi, steps, last_meta,
                   consecutive_frames, fi, batches, bound, li, running_claims,
                   recursive_snark_option, recursive_snark, k, last_running_claim,
                   trail, accepted, rejected, result, vcall>>

\* NIVCSteps::num_steps
num_steps == Len(steps)

-----------------------------------------------------------------------------
(* Proof::prove_recursively *)

\* an entry of the record of calls made to the folding scheme
Call(op, step, claim, program_counter, ok) ==
    [op |-> op, step |-> step, claim |-> claim,
     program_counter |-> program_counter, ok |-> ok]

\* a variant of verify_unwrap that drops the verifier's Result
verify_unchecked(ok) == TRUE

\* whether the run goes on after a call to the scheme: `.unwrap()` on its Result
base_unwrap(ok) == ok
fold_unwrap(ok) == ok
verify_unwrap(ok) == ok

\* a variant of augmented_circuit_index that keeps the first step's index
augmented_circuit_index_first(step) == circuit_index(steps[1])

\* a variant of stored_snark that loses the accumulator
stored_snark_lost(rs) == None

\* recursive_snark_option = Some(recursive_snark)
stored_snark(rs) == rs

\* the Running Claim that the calls for a step select: step.circuit_index()
augmented_circuit_index(step) == circuit_index(step)

\* the scheme's verifier is a function of (accumulator, claim, z0, secondary
\* z0); a verdict is fixed the first time the verifier is asked for it.
Verdicts(args) ==
    IF args \in accepted THEN {TRUE}
    ELSE IF args \in rejected THEN {FALSE}
    ELSE BOOLEAN

ProveRecursivelyBegin ==
    /\ pc = "from_frames_done"
    /\ IF num_steps = 0
       THEN /\ Panic("assertion failed: nivc_steps.num_steps() != 0")
            /\ UNCHANGED <<running_claims, recursive_snark_option, last_running_claim, k>>
       ELSE LET blank_step == NIVCStep_blank(new_nivc(reduction_count), MetaLurk)
                claims == setup_running_claims(blank_step)
            IN IF circuit_index(steps[1]) = None
               THEN /\ Panic("unwrap on None: circuit_index")
                    /\ UNCHANGED <<running_claims, recursive_snark_option,
                                   last_running_claim, k>>
               ELSE /\ running_claims' = claims
                    /\ recursive_snark_option' = None
                    /\ last_running_claim' = Some(claims[circuit_index(steps[1])[1]])
                    /\ k' = 0
                    /\ pc' = "loop"
                    /\ fault' = fault
    /\ UNCHANGED <<lang, config, call>>
    /\ UNCHANGED <<frames, reduction_count, z0, zi, steps, last_meta,
                   consecutive_frames, fi, batches, bound, li, recursive_snark,
                   trail, accepted, rejected, result, vcall>>

\* recursive_snark_option is None: RecursiveSNARK::iter_base_step(..).unwrap()
IterBaseStep ==
    /\ pc = "loop"
    /\ k < num_steps
    /\ recursive_snark_option = None
    /\ LET step == steps[k + 1]
           idx == augmented_circuit_index(step)
       IN IF idx = None
          THEN /\ Panic("unwrap on None: circuit_index")
               /\ UNCHANGED <<recursive_snark, trail>>
          ELSE IF num_circuits(step) = None
          THEN /\ Panic("assertion failed: self.meta().is_lurk()")
               /\ UNCHANGED <<recursive_snark, trail>>
          ELSE \E ok \in BOOLEAN :
                 /\ trail' = Append(trail, Call("base", k, idx[1], Some(idx[1]), ok))
                 /\ IF base_unwrap(ok)
                    THEN /\ recursive_snark' = Some(<<idx[1]>>)
                         /\ pc' = "prove_step"
                         /\ fault' = fault
                    ELSE /\ Panic("iter_base_step failed")
                         /\ UNCHANGED recursive_snark
    /\ UNCHANGED <<lang, config, call>>
    /\ UNCHANGED <<frames, reduction_count, z0, zi, steps, last_meta,
                   consecutive_frames, fi, batches, bound, li, running_claims,
                   recursive_snark_option, k, last_running_claim, accepted,
                   rejected, result, vcall>>

\* recursive_snark_option is Some: recursive_snark_option.clone()
CloneSnark ==
    /\ pc = "loop"
    /\ k < num_steps
    /\ recursive_snark_option # None
    /\ IF augmented_circuit_index(steps[k + 1]) = None
       THEN /\ Panic("unwrap on None: circuit_index")
            /\ UNCHANGED recursive_snark
       ELSE /\ recursive_snark' = recursive_snark_option
            /\ pc' = "prove_step"
            /\ fault' = fault
    /\ UNCHANGED <<lang, config, call>>
    /\ UNCHANGED <<frames, reduction_count, z0, zi, steps, last_meta,
                   consecutive_frames, fi, batches, bound, li, running_claims,
                   recursive_snark_option, k, last_running_claim, trail,
                   accepted, rejected, result, vcall>>

\* recursive_snark.prove_step(&running_claims[idx], step, ..).unwrap()
ProveStep ==
    /\ pc = "prove_step"
    /\ LET idx == augmented_circuit_index(steps[k + 1])[1] IN
       \E ok \in BOOLEAN :
         /\ trail' = Append(trail, Call("fold", k, idx, None, ok))
         /\ IF fold_unwrap(ok)
            THEN /\ recursive_snark' = Some(Append(recursive_snark[1], idx))
                 /\ pc' = "verify"
                 /\ fault' = fault
            ELSE /\ Panic("prove_step failed")
                 /\ UNCHANGED recursive_snark
    /\ UNCHANGED <<lang, config, call>>
    /\ UNCHANGED <<frames, reduction_count, z0, zi, steps, last_meta,
                   consecutive_frames, fi, batches, bound, li, running_claims,
                   recursive_snark_option, k, last_running_claim, accepted,
                   rejected, result, vcall>>

\* recursive_snark.verify(&running_claims[idx], &z0_primary, &z0_secondary).unwrap(),
\* then recursive_snark_option = Some(recursive_snark) and last_running_claim
VerifyStep ==
    /\ pc = "verify"
    /\ LET idx == augmented_circuit_index(steps[k + 1])[1]
           args == <<recursive_snark[1], running_claims[idx], z0[1], z0_secondary>>
       IN \E ok \in Verdicts(args) :
            /\ trail' = Append(trail, Call("verify", k, idx, None, ok))
            /\ accepted' = IF ok THEN accepted \cup {args} ELSE accepted
            /\ rejected' = IF ok THEN rejected ELSE rejected \cup {args}
            /\ IF verify_unwrap(ok)
               THEN /\ recursive_snark_option' = stored_snark(recursive_snark)
                    /\ last_running_claim' = Some(running_claims[idx])
                    /\ k' = k + 1
                    /\ pc' = "loop"
                    /\ fault' = fault
               ELSE /\ Panic("verify failed")
                    /\ UNCHANGED <<recursive_snark_option, last_running_claim, k>>
    /\ UNCHANGED <<lang, config, call>>
    /\ UNCHANGED <<frames, reduction_count, z0, zi, steps, last_meta,
                   consecutive_frames, fi, batches, bound, li, running_claims,
                   recursive_snark, result, vcall>>

\* Ok(Self::Recursive(..)) of prove_recursively, then Ok((proof, z0, zi, num_steps)) of prove
ProveReturn ==
    /\ pc = "loop"
    /\ k >= num_steps
    /\ IF recursive_snark_option = None
       THEN /\ Panic("RecursiveSNARK missing")
            /\ UNCHANGED result
       ELSE /\ result' = Some([proof |-> [kind |-> "Recursive",
                                          snark |-> recursive_snark_option[1]],
                               z0 |-> z0[1], zi |-> zi[1], num_steps |-> num_steps])
            /\ pc' = "done"
            /\ fault' = fault
    /\ UNCHANGED <<lang, config, call>>
    /\ UNCHANGED <<frames, reduction_count, z0, zi, steps, last_meta,
                   consecutive_frames, fi, batches, bound, li, running_claims,
                   recursive_snark_option, recursive_snark, k, last_running_claim,
                   trail, accepted, rejected, vcall>>

-----------------------------------------------------------------------------
(* Proof::verify, called by the holder of a returned proof *)

\* a variant of proof_verify_args that passes zi as the initial state
proof_verify_args_zi(proof, claim, vz0, vzi, vn) ==
    <<proof.snark, claim, vzi, z0_secondary>>

\* a variant of proof_verify_args that derives the secondary vector from the step count
proof_verify_args_n(proof, claim, vz0, vzi, vn) ==
    <<proof.snark, claim, vz0, <<vn>>>>

\* what Proof::verify passes to the scheme's verifier for a Recursive proof
proof_verify_args(proof, claim, vz0, vzi, vn) ==
    <<proof.snark, claim, vz0, z0_secondary>>

VerifyInputs == {to_vector(s) : s \in States}

ProofVerify ==
    /\ pc = "done"
    /\ \E c \in DOMAIN running_claims, vz0 \in VerifyInputs, vzi \in VerifyInputs,
          vn \in {0, result[1].num_steps} :
         LET args == proof_verify_args(result[1].proof, running_claims[c], vz0, vzi, vn) IN
         \E ok \in Verdicts(args) :
           /\ accepted' = IF ok THEN accepted \cup {args} ELSE accepted
           /\ rejected' = IF ok THEN rejected ELSE rejected \cup {args}
           /\ vcall' = Some([claim |-> running_claims[c], z0 |-> vz0, zi |-> vzi,
                             num_steps |-> vn,
                             outcome |-> IF ok THEN "Ok(true)" ELSE "Err"])
    /\ pc' = "verified"
    /\ UNCHANGED <<lang, config, call>>
    /\ UNCHANGED <<frames, reduction_count, fault, z0, zi, steps, last_meta,
                   consecutive_frames, fi, batches, bound, li, running_claims,
                   recursive_snark_option, recursive_snark, k, last_running_claim,
                   trail, result>>

-----------------------------------------------------------------------------

Next ==
    \/ ProveEncode
    \/ FromFramesBegin
    \/ ScanFrame
    \/ ScanEnd
    \/ LinkBegin
    \/ LinkStep
    \/ LinkEnd
    \/ ProveRecursivelyBegin
    \/ IterBaseStep
    \/ CloneSnark
    \/ ProveStep
    \/ VerifyStep
    \/ ProveReturn
    \/ ProofVerify

Spec == Init /\ [][Next]_vars

-----------------------------------------------------------------------------
(* Repeated verification: the holder of a proof calls Proof::verify again    *)
(* with the claim and z0 of its previous call and any zi and step count.     *)

MaxVerifyFrames == 2
MaxVerifyCalls == 2

ProofVerifyRepeat ==
    /\ pc = "verified"
    /\ Len(vcall) < MaxVerifyCalls
    /\ \E vzi \in VerifyInputs, vn \in {0, result[1].num_steps} :
         LET prev == vcall[Len(vcall)]
             args == proof_verify_args(result[1].proof, prev.claim, prev.z0, vzi, vn)
         IN \E ok \in Verdicts(args) :
              /\ accepted' = IF ok THEN accepted \cup {args} ELSE accepted
              /\ rejected' = IF ok THEN rejected ELSE rejected \cup {args}
              /\ vcall' = Append(vcall, [claim |-> prev.claim, z0 |-> prev.z0,
                                         zi |-> vzi, num_steps |-> vn,
                                         outcome |-> IF ok THEN "Ok(true)" ELSE "Err"])
    /\ UNCHANGED <<lang, config, call>>
    /\ UNCHANGED <<frames, reduction_count, pc, fault, z0, zi, steps, last_meta,
                   consecutive_frames, fi, batches, bound, li, running_claims,
                   recursive_snark_option, recursive_snark, k, last_running_claim,
                   trail, result>>

InitVerify ==
    /\ Init
    /\ Len(frames) <= MaxVerifyFrames

NextVerify ==
    \/ Next
    \/ ProofVerifyRepeat

SpecVerify == InitVerify /\ [][NextVerify]_vars

-----------------------------------------------------------------------------
(* The Folding Configuration and the dispatch table as functions: a registry *)
(* and a configuration are drawn, and the functions are called on them.      *)

MaxCoprocessors == 2

Fingerprints == {"A", "B", "C"}

\* the registries: fingerprints without repetition, in index order
Langs ==
    UNION { { l \in [1..n -> Fingerprints] : \A i, j \in 1..n : l[i] = l[j] => i = j }
            : n \in 0..MaxCoprocessors }

AllMetas == {MetaLurk} \cup {MetaCoprocessor(z) : z \in Fingerprints}

\* the state of the proving run
proverVars == <<frames, reduction_count, pc, fault, z0, zi, steps, last_meta,
                consecutive_frames, fi, batches, bound, li, running_claims,
                recursive_snark_option, recursive_snark, k, last_running_claim,
                trail, accepted, rejected, result, vcall>>

\* the primary-lane steps of a configuration: the blank step, with or without
\* a forward reference
PrimarySteps(cfg) ==
    {NIVCStep_blank(cfg, MetaLurk)} \cup
    {[NIVCStep_blank(cfg, MetaLurk) EXCEPT !.next = Some(MultiFrame_blank(cfg, m))] :
        m \in Metas}

InitConfig ==
    /\ lang \in Langs
    /\ reduction_count \in 1..MaxCount
    /\ config \in {new_ivc(reduction_count), new_nivc(reduction_count)}
    /\ call = None
    /\ frames = <<>>
    /\ pc = "config"
    /\ fault = "none"
    /\ z0 = None
    /\ zi = None
    /\ steps = <<>>
    /\ last_meta = MetaLurk
    /\ consecutive_frames = <<>>
    /\ fi = 1
    /\ batches = <<>>
    /\ bound = 0
    /\ li = 0
    /\ running_claims = <<>>
    /\ recursive_snark_option = None
    /\ recursive_snark = None
    /\ k = 0
    /\ last_running_claim = None
    /\ trail = <<>>
    /\ accepted = {}
    /\ rejected = {}
    /\ result = None
    /\ vcall = None

\* FoldingConfig::circuit_index(meta)
CallCircuitIndex ==
    /\ pc = "config"
    /\ \E meta \in AllMetas :
         call' = Some([op |-> "circuit_index", arg |-> meta,
                       out |-> config_circuit_index(config, meta)])
    /\ UNCHANGED <<lang, config>>
    /\ UNCHANGED proverVars

\* FoldingConfig::num_circuits()
CallNumCircuits ==
    /\ pc = "config"
    /\ call' = Some([op |-> "num_circuits", arg |-> None,
                     out |-> config_num_circuits(config)])
    /\ UNCHANGED <<lang, config>>
    /\ UNCHANGED proverVars

\* NIVCStep::primary_circuit(circuit_index) of a primary-lane step
CallPrimaryCircuit ==
    /\ pc = "config"
    /\ \E step \in PrimarySteps(config), index \in 0..(MaxCoprocessors + 1) :
         call' = Some([op |-> "primary_circuit",
                       arg |-> [step |-> step, index |-> index],
                       out |-> primary_circuit(step, index)])
    /\ UNCHANGED <<lang, config>>
    /\ UNCHANGED proverVars

\* NIVCStep::num_circuits() of a step of any lane
CallStepNumCircuits ==
    /\ pc = "config"
    /\ \E meta \in Metas :
         LET step == NIVCStep_blank(config, meta) IN
         call' = Some([op |-> "step_num_circuits", arg |-> step,
                       out |-> num_circuits(step)])
    /\ UNCHANGED <<lang, config>>
    /\ UNCHANGED proverVars

NextConfig ==
    \/ CallCircuitIndex
    \/ CallNumCircuits
    \/ CallPrimaryCircuit
    \/ CallStepNumCircuits

SpecConfig == InitConfig /\ [][NextConfig]_vars

-----------------------------------------------------------------------------
(* Vocabulary of the properties *)

CeilDiv(n, c) == (n + c - 1) \div c

Last(s) == s[Len(s)]

RECURSIVE Flatten(_)
Flatten(ss) == IF ss = <<>> THEN <<>> ELSE Head(ss) \o Flatten(Tail(ss))

\* the scan of from_frames is over and its pending batch is compiled
SegmentationDone ==
    /\ pc \notin {"prove", "from_frames", "scan", "error"}
    /\ frames # <<>>

\* from_frames has just returned its step sequence
FromFramesReturned == pc = "from_frames_done"

\* from_frames ended in a panic of its linking pass
FromFramesPanicked ==
    /\ pc = "panic"
    /\ fault \in {"attempt to subtract with overflow",
                  "index out of bounds: steps[i + 1]"}

\* frame j triggers a lane change out of a primary-lane batch
PrimaryExit(j) ==
    /\ j > 1
    /\ frames[j - 1].meta = MetaLurk
    /\ frames[j].meta # MetaLurk

\* frame j triggers a lane change out of an auxiliary-lane batch
AuxiliaryExit(j) ==
    /\ j > 1
    /\ frames[j - 1].meta # MetaLurk
    /\ frames[j].meta # frames[j - 1].meta

\* the length of the maximal run of primary-lane frames that starts at frame j
RECURSIVE PrimaryRun(_)
PrimaryRun(j) ==
    IF j > Len(frames) \/ frames[j].meta # MetaLurk THEN 0 ELSE 1 + PrimaryRun(j + 1)

SingleLane == \A i, j \in 1..Len(frames) : frames[i].meta = frames[j].meta

-----------------------------------------------------------------------------
(* C1 - Program-counter handoff: in the step sequence that from_frames       *)
(* returns, the next program counter that a step's synthesize outputs is the *)
(* circuit index of the following step, and 0 for the last step.             *)
C1_PcHandoff ==
    FromFramesReturned =>
        \A i \in 1..Len(steps) :
            synthesize_next_pc(steps[i]) =
                IF i < Len(steps) THEN circuit_index(steps[i + 1])[1] ELSE 0

(* C2 - State continuity: the trace's frames chain (Init), and for every two *)
(* consecutive batches handed to the circuit generator the output state of   *)
(* the earlier batch's last frame is the input state of the later batch's    *)
(* first frame.                                                              *)
C2_StateContinuity ==
    \A b \in 1..(Len(batches) - 1) :
        frames[Last(batches[b].frames)].output = frames[batches[b + 1].frames[1]].input

(* C3 - A non-empty single-lane trace of n frames under cap c: from_frames   *)
(* produces a step sequence (it does not panic) of exactly ceil(n/c) steps,  *)
(* every step covering c frames except possibly the last.                    *)
C3_SingleLaneSteps ==
    (frames # <<>> /\ SingleLane) =>
        /\ ~FromFramesPanicked
        /\ FromFramesReturned =>
             /\ num_steps = CeilDiv(Len(frames), reduction_count)
             /\ \A i \in 1..(Len(steps) - 1) :
                    Len(steps[i].multiframe.frames) = reduction_count
             /\ Len(Last(steps).multiframe.frames) <= reduction_count

(* C4 - prove on an empty frame sequence ends in the empty-trace error       *)
(* outcome, never in a panic.                                                *)
C4_EmptyTraceError ==
    (frames = <<>> /\ pc # "prove") => (pc = "error" /\ fault = "empty trace")

(* C5 - Every batch of auxiliary-lane frames is compiled with cap 1, so that *)
(* it yields one step per frame, wherever the batch lies in the trace.       *)
C5_AuxiliaryCapOne ==
    \A b \in 1..Len(batches) :
        batches[b].meta # MetaLurk =>
            /\ batches[b].cap = 1
            /\ batches[b].n_steps = Len(batches[b].frames)

(* C6 - Every maximal run of n consecutive primary-lane frames yields        *)
(* exactly ceil(n / count) steps.                                            *)
C6_PrimaryRunSteps ==
    \A b \in 1..Len(batches) :
        batches[b].meta = MetaLurk =>
            batches[b].n_steps =
                CeilDiv(PrimaryRun(batches[b].frames[1]), reduction_count)

\* the trace with every frame that leaves a primary-lane batch doubled
CoveredTrace ==
    Flatten([j \in 1..Len(frames) |-> IF PrimaryExit(j) THEN <<j, j>> ELSE <<j>>])

(* C7 - Trace coverage: the compiled batches, and the steps' frames,         *)
(* concatenated in order, are the trace with each frame that triggers a lane *)
(* change out of a primary-lane batch appearing twice in a row (last in the  *)
(* closing batch, first in the next one) and every other frame once.         *)
C7_TraceCoverage ==
    SegmentationDone =>
        /\ Flatten([b \in 1..Len(batches) |-> batches[b].frames]) = CoveredTrace
        /\ Flatten([i \in 1..Len(steps) |-> steps[i].multiframe.frames]) = CoveredTrace
        /\ \A j \in 1..Len(frames) :
             /\ PrimaryExit(j) =>
                  \E b \in 1..(Len(batches) - 1) :
                      /\ Last(batches[b].frames) = j
                      /\ batches[b + 1].frames[1] = j
             /\ AuxiliaryExit(j) =>
                  \E b \in 1..(Len(batches) - 1) :
                      /\ Last(batches[b].frames) = j - 1
                      /\ batches[b + 1].frames[1] = j

C7_Witness ==
    /\ SegmentationDone
    /\ \E i, j \in 1..Len(frames) : PrimaryExit(i) /\ AuxiliaryExit(j)
    /\ \E i \in 1..Len(steps) : Len(steps[i].multiframe.frames) > 1

(* C8 - Lane boundaries are step boundaries: every batch passed to the       *)
(* circuit generator consists of frames of one and the same lane tag.        *)
C8_SameLaneBatches ==
    \A b \in 1..Len(batches) :
        \A j \in 1..Len(batches[b].frames) :
            frames[batches[b].frames[j]].meta = batches[b].meta

(* C9 - No partial or unverified proof: a proof is returned only if for      *)
(* every step the base case or fold and the verification succeeded; a failed *)
(* call is the last call of the run, which panics and returns nothing.       *)
C9_NoPartialProof ==
    /\ result # None =>
         /\ result[1].proof.kind = "Recursive"
         /\ \A j \in 1..Len(trail) : trail[j].ok
         /\ \A s \in 0..(num_steps - 1) :
              /\ \E j \in 1..Len(trail) :
                    trail[j].step = s /\ trail[j].op \in {"base", "fold"}
              /\ \E j \in 1..Len(trail) :
                    /\ trail[j].step = s /\ trail[j].op = "verify"
                    /\ \A h \in 1..Len(trail) :
                          (trail[h].step = s /\ trail[h].op # "verify") => h < j
    /\ \A j \in 1..Len(trail) :
         ~trail[j].ok =>
            /\ j = Len(trail)
            /\ pc = "panic"
            /\ result = None

C9_Witness ==
    /\ pc = "panic"
    /\ trail # <<>>
    /\ ~Last(trail).ok
    /\ Last(trail).op = "verify"
    /\ Last(trail).step >= 1
    /\ Last(trail).step + 1 < num_steps

(* C10 - Prove/verify round trip: Proof::verify on the returned proof with   *)
(* the Running Claim of the last step's lane and the returned z0 and zi      *)
(* returns Ok(true).                                                         *)
C10_RoundTrip ==
    (/\ pc = "verified"
     /\ vcall[1].claim = running_claims[circuit_index(Last(steps))[1]]
     /\ vcall[1].z0 = result[1].z0
     /\ vcall[1].zi = result[1].zi)
    => vcall[1].outcome = "Ok(true)"

C10_Witness ==
    /\ pc = "verified"
    /\ vcall[1].claim = running_claims[circuit_index(Last(steps))[1]]
    /\ vcall[1].z0 = result[1].z0
    /\ vcall[1].zi = result[1].zi
    /\ result[1].z0 # result[1].zi
    /\ circuit_index(Last(steps))[1] # circuit_index(steps[1])[1]
    /\ vcall[1].outcome = "Ok(true)"

\* the fingerprint is registered in the lane registry
Registered(z) == \E j \in 1..Len(lang) : lang[j] = z

\* registry.index_of(z), zero-based
IndexOf(z) == (CHOOSE j \in 1..Len(lang) : lang[j] = z) - 1

(* C11 - FoldingConfig::circuit_index maps the Primary tag to 0 in both      *)
(* modes; in non-uniform mode it maps Auxiliary(fp) to index_of(fp) + 1 for  *)
(* a registered fingerprint and returns no index for an unregistered one.    *)
C11_CircuitIndex ==
    (call # None /\ call[1].op = "circuit_index") =>
        LET meta == call[1].arg
            out == call[1].out
        IN /\ meta = MetaLurk => out = Some(0)
           /\ (config.mode = "NIVC" /\ meta # MetaLurk /\ Registered(meta.z_ptr)) =>
                  out = Some(IndexOf(meta.z_ptr) + 1)
           /\ (config.mode = "NIVC" /\ meta # MetaLurk /\ ~Registered(meta.z_ptr)) =>
                  out = None

C11_Witness ==
    /\ call # None
    /\ call[1].op = "circuit_index"
    /\ config.mode = "NIVC"
    /\ call[1].arg # MetaLurk
    /\ Registered(call[1].arg.z_ptr)
    /\ call[1].out = Some(2)

(* C12 - FoldingConfig::num_circuits is 1 in uniform mode and 1 + the        *)
(* registry's count in non-uniform mode; the circuit index of the Primary    *)
(* tag and of every registered Auxiliary tag is below it, and is an index of *)
(* the Running Claims that prove_recursively sets up.                        *)
C12_NumCircuits ==
    (call # None /\ call[1].op = "num_circuits") =>
        /\ call[1].out = IF config.mode = "IVC" THEN 1 ELSE 1 + Len(lang)
        /\ \A meta \in Metas :
             /\ config_circuit_index(config, meta) # None
             /\ config_circuit_index(config, meta)[1] >= 0
             /\ config_circuit_index(config, meta)[1] < call[1].out
        /\ config.mode = "NIVC" =>
             /\ DOMAIN setup_running_claims(NIVCStep_blank(config, MetaLurk))
                  = 0..(call[1].out - 1)
             /\ \A meta \in Metas :
                  config_circuit_index(config, meta)[1] \in
                      DOMAIN setup_running_claims(NIVCStep_blank(config, MetaLurk))

C12_Witness ==
    /\ call # None
    /\ call[1].op = "num_circuits"
    /\ config.mode = "NIVC"
    /\ Len(lang) = 2
    /\ call[1].out = 3

(* C13 - Dispatch-table round trip: for a primary-lane step under a          *)
(* non-uniform configuration, primary_circuit(0) is the step itself; for     *)
(* 1 <= k < num_circuits() it is a blank step without forward reference,     *)
(* tagged for auxiliary lane k - 1, whose circuit index is k; for            *)
(* k - 1 >= registry.count() it fails.                                       *)
C13_PrimaryCircuit ==
    (call # None /\ call[1].op = "primary_circuit" /\ config.mode = "NIVC") =>
        LET step == call[1].arg.step
            index == call[1].arg.index
            out == call[1].out
        IN /\ index = 0 => out = Some(step)
           /\ (1 <= index /\ index < config_num_circuits(config)) =>
                 /\ out # None
                 /\ out[1].next = None
                 /\ out[1].multiframe.frames = <<>>
                 /\ out[1].multiframe.meta = MetaCoprocessor(lang[index])
                 /\ circuit_index(out[1]) = Some(index)
           /\ (1 <= index /\ index - 1 >= Len(lang)) => out = None

C13_Witness ==
    /\ call # None
    /\ call[1].op = "primary_circuit"
    /\ config.mode = "NIVC"
    /\ call[1].arg.index = 2
    /\ call[1].arg.step.next # None
    /\ call[1].out # None
    /\ circuit_index(call[1].out[1]) = Some(2)

\* what the scheme's verifier is asked by a call of Proof::verify on the
\* returned proof: the accumulator, the claim, z0 and the fixed vector [0]
VerifierQuestion(c) == <<result[1].proof.snark, c.claim, c.z0, <<0>>>>

(* C14 - Proof::verify on a Recursive proof depends only on (proof, claim,   *)
(* z0): calls that differ only in zi or in the step count have the same      *)
(* outcome, the outcome is Ok(true) exactly when the scheme's verifier       *)
(* accepts (claim, z0, [0]) and its error otherwise, never Ok(false).        *)
C14_VerifyDependsOnClaimAndZ0 ==
    /\ accepted \cap rejected = {}
    /\ \A i \in 1..Len(vcall) :
         /\ vcall[i].outcome \in {"Ok(true)", "Err"}
         /\ vcall[i].outcome = "Ok(true)" <=> VerifierQuestion(vcall[i]) \in accepted
         /\ vcall[i].outcome = "Err" <=> VerifierQuestion(vcall[i]) \in rejected
    /\ \A i, j \in 1..Len(vcall) :
         (vcall[i].claim = vcall[j].claim /\ vcall[i].z0 = vcall[j].z0) =>
             vcall[i].outcome = vcall[j].outcome

C14_Witness ==
    /\ Len(vcall) = 2
    /\ vcall[1].zi # vcall[2].zi
    /\ vcall[1].num_steps # vcall[2].num_steps
    /\ vcall[1].outcome = "Err"
    /\ vcall[2].outcome = "Err"

\* the length of the maximal run of equal-tagged frames that starts at frame j
RECURSIVE RunLength(_)
RunLength(j) ==
    IF j + 1 <= Len(frames) /\ frames[j + 1].meta = frames[j].meta
    THEN 1 + RunLength(j + 1)
    ELSE 1

\* the number of steps of the segmentation of the trace from frame j on,
\* where j starts a run: a function of the frames and the reduction count
RECURSIVE StepCountFrom(_)
StepCountFrom(j) ==
    LET n == RunLength(j) IN
    IF j + n > Len(frames) THEN CeilDiv(n, reduction_count)
    ELSE (IF frames[j].meta = MetaLurk THEN CeilDiv(n + 1, reduction_count) ELSE n)
         + StepCountFrom(j + n)

(* C15 - Determinism of metadata: the z0, zi and step count that a           *)
(* successful prove returns are functions of the frames and the reduction    *)
(* count alone: the encoding of the first frame's input, the encoding of the *)
(* last frame's output and the number of steps of the segmentation.          *)
C15_MetadataDeterminism ==
    result # None =>
        /\ result[1].z0 = to_vector(frames[1].input)
        /\ result[1].zi = to_vector(frames[Len(frames)].output)
        /\ result[1].num_steps = Len(steps)
        /\ result[1].num_steps = StepCountFrom(1)

C15_Witness ==
    /\ result # None
    /\ result[1].num_steps >= 3
    /\ result[1].z0 # result[1].zi
    /\ \E j \in 1..Len(frames) : PrimaryExit(j)
    /\ \E j \in 1..Len(trail) : trail[j].claim # 0

(* C16 - The linking pass of from_frames completes without arithmetic        *)
(* underflow and without an out-of-range index for every non-empty step      *)
(* sequence; a one-step sequence is returned with no forward reference.      *)
C16_LinkingCompletes ==
    /\ pc = "panic" =>
         fault \notin {"attempt to subtract with overflow",
                       "index out of bounds: steps[i + 1]"}
    /\ (FromFramesReturned /\ Len(steps) = 1) => steps[1].next = None

CallsOf(op, s) == {j \in 1..Len(trail) : trail[j].op = op /\ trail[j].step = s}

(* C18 (as stated) - each step is either bootstrapped or folded, not both:   *)
(* the base case is applied once, to step 0, step 0 is not passed to the     *)
(* fold operation, and the fold is applied once to each step i >= 1.         *)
C18_BootstrapOrFold ==
    /\ \A j \in 1..Len(trail) : trail[j].op = "base" => trail[j].step = 0
    /\ \A j \in 1..Len(trail) : trail[j].op = "fold" => trail[j].step >= 1
    /\ result # None =>
         /\ Cardinality(CallsOf("base", 0)) = 1
         /\ \A s \in 1..(num_steps - 1) : Cardinality(CallsOf("fold", s)) = 1

\* the calls made so far: the base case only for step 0 and first of all,
\* at most one fold per step; in a run that returns, one base case and one
\* fold for every step, step 0 included
BootstrapThenFold ==
    /\ \A j \in 1..Len(trail) :
         trail[j].op = "base" => (trail[j].step = 0 /\ j = 1)
    /\ \A s \in 0..(num_steps - 1) : Cardinality(CallsOf("fold", s)) <= 1
    /\ CallsOf("fold", 0) # {} => CallsOf("base", 0) # {}
    /\ result # None =>
         /\ Cardinality(CallsOf("base", 0)) = 1
         /\ \A s \in 0..(num_steps - 1) : Cardinality(CallsOf("fold", s)) = 1

\* a step of the loop: the base case is only built without an accumulator,
\* and an accumulator, once stored, stays
AccumulatorKept ==
    /\ (trail' # trail /\ trail'[Len(trail')].op = "base") => recursive_snark_option = None
    /\ recursive_snark_option # None => recursive_snark_option' # None

(* C18 (amended) - the base-case construction is applied exactly once, to    *)
(* step 0 while the loop has no accumulator; the fold is applied exactly     *)
(* once to every step, step 0 included, right after its base case; the loop  *)
(* never returns from HasAccumulator to NoAccumulator.                       *)
C18_BootstrapThenFold ==
    [](BootstrapThenFold) /\ [][AccumulatorKept]_vars

C18_Witness ==
    /\ result # None
    /\ num_steps >= 3
    /\ CallsOf("fold", 0) # {}
    /\ CallsOf("base", 0) # {}

\* prove_recursively has set up its Running Claims
LoopEntered == running_claims # <<>>

\* the accumulator after the steps 0 .. s of the sequence
RECURSIVE AccumulatorAfter(_)
AccumulatorAfter(s) ==
    IF s = 0 THEN <<circuit_index(steps[1])[1], circuit_index(steps[1])[1]>>
    ELSE Append(AccumulatorAfter(s - 1), circuit_index(steps[s + 1])[1])

(* C19 - Ordering and termination of the proving loop: the Running Claims    *)
(* are set up before step 0, the steps are processed in index order, each    *)
(* verified before the next is touched, and unless a scheme operation fails  *)
(* the run does not abort and returns Proof::Recursive wrapping the          *)
(* accumulator produced by the last step.                                    *)
C19_OrderedTermination ==
    /\ trail # <<>> => LoopEntered
    /\ \A j \in 1..(Len(trail) - 1) :
         \/ trail[j + 1].step = trail[j].step /\ trail[j].op # "verify"
         \/ trail[j + 1].step = trail[j].step + 1 /\ trail[j].op = "verify"
    /\ (pc = "panic" /\ LoopEntered) => \E j \in 1..Len(trail) : ~trail[j].ok
    /\ result # None =>
         /\ result[1].proof = [kind |-> "Recursive",
                               snark |-> AccumulatorAfter(num_steps - 1)]
         /\ \A s \in 0..(num_steps - 1) : CallsOf("verify", s) # {}

(* C20 - Claim selection: at every step the base case, the fold and the      *)
(* verification use the Running Claim at the step's circuit index, the       *)
(* program counter passed to the base case is that index, and the last       *)
(* Running Claim remembered is the one of the last step processed.           *)
C20_ClaimSelection ==
    /\ \A j \in 1..Len(trail) :
         /\ trail[j].claim = circuit_index(steps[trail[j].step + 1])[1]
         /\ trail[j].op = "base" => trail[j].program_counter = Some(trail[j].claim)
    /\ \A a \in accepted \cup rejected :
         (pc \notin {"verified"} /\ trail # <<>>) =>
             \E j \in 1..Len(trail) :
                 /\ trail[j].op = "verify"
                 /\ a[2] = running_claims[circuit_index(steps[trail[j].step + 1])[1]]
    /\ (pc = "loop" /\ k >= 1) =>
         last_running_claim = Some(running_claims[circuit_index(steps[k])[1]])
    /\ pc \in {"done", "verified"} =>
         last_running_claim = Some(running_claims[circuit_index(Last(steps))[1]])

C20_Witness ==
    /\ pc = "done"
    /\ num_steps >= 3
    /\ circuit_index(Last(steps)) # circuit_index(steps[1])
    /\ circuit_index(steps[2]) # circuit_index(steps[1])

(* C21 - For every step, whatever its lane tag and whether its Folding       *)
(* Configuration is uniform or non-uniform, the step's num_circuits()        *)
(* returns without failing and equals the configuration's num_circuits().    *)
C21_StepNumCircuits ==
    (call # None /\ call[1].op = "step_num_circuits") =>
        /\ call[1].out # None
        /\ call[1].out = Some(config_num_circuits(call[1].arg.multiframe.folding_config))

====
